---- MODULE Spec2Model ----
(***************************************************************************)
(* repo-fetch: a React front-end with one text input (the GitHub username), *)
(* one submit control and a repository list.  The model covers the module   *)
(* state `user`, the two refs, the asynchronous function fetchRepositories  *)
(* (one record per invocation in flight), the RepoList render and the       *)
(* focus/blur handlers highlightElement and blurElement.                    *)
(***************************************************************************)
EXTENDS Integers, Sequences, FiniteSets, TLC

VARIABLES
    user,          \* the useState value `user`
    submitButton,  \* submitButton.current: NULL or the mounted element
    userInput,     \* userInput.current: NULL or the mounted element
    focused,       \* document.activeElement: "none", "userInput", "submitButton"
    submitBorder,  \* inline border style of the submit <input>, one value per side
    calls,         \* invocations of fetchRepositories that have not returned yet
    settled,       \* the invocation of fetchRepositories that returned most recently
    listItems      \* the <Repo> elements of the last RepoList render

vars == <<user, submitButton, userInput, focused, submitBorder, calls, settled, listItems>>

-----------------------------------------------------------------------------
(* Bounds *)

\* Invocations of fetchRepositories that may be pending at the same time.
MaxInFlight == 2

\* Longest JSON array a response body holds.
MaxRepos == 2

-----------------------------------------------------------------------------
(* Inputs *)

NULL == "null"

Usernames == {"", "octocat"}

\* HTTP statuses the API answers with.
Statuses == {200, 404}

\* The repository record of a response body.
HelloWorld == [name |-> "Hello-World", url |-> "https://github.com/octocat/Hello-World"]

\* Well-formed JSON arrays of repository records.
Bodies == UNION {[1..n -> {HelloWorld}] : n \in 0..MaxRepos}

Slots == 1..MaxInFlight

-----------------------------------------------------------------------------
(* Strings *)

\* TRUE iff sub occurs in s.
Contains(s, sub) ==
    \E i \in 1..(Len(s) - Len(sub) + 1) : SubSeq(s, i, i + Len(sub) - 1) = sub

-----------------------------------------------------------------------------
(* fetchRepositories *)

\* The value of a promise that has not settled.
Undefined == [isError |-> FALSE, name |-> "undefined", message |-> "", data |-> <<>>]

\* data of `return data`.
JsonData(data) == [isError |-> FALSE, name |-> "Array", message |-> "", data |-> data]

\* The rejection reason of fetch() when the network call fails.
NetworkError == [isError |-> TRUE, name |-> "TypeError", message |-> "Failed to fetch", data |-> <<>>]

\* The rejection reason of response.json() on a malformed body.
ParseError == [isError |-> TRUE, name |-> "SyntaxError", message |-> "Unexpected token", data |-> <<>>]

\* A mutant of HttpError: the message leaves the status code out.
HttpErrorNoStatus(status) ==
    [isError |-> TRUE, name |-> "Error", message |-> "HTTP error!", data |-> <<>>]

\* new Error("HTTP error! Status code: " + response.status)
HttpError(status) ==
    [isError |-> TRUE, name |-> "Error",
     message |-> "HTTP error! Status code: " \o ToString(status), data |-> <<>>]

\* response.ok
ResponseOk(status) == status \in 200..299

\* A mutant of Url: an empty username is replaced by a default account.
UrlDefaulted(username) ==
    "api.github.com/users/" \o (IF username = "" THEN "octocat" ELSE username) \o "/repos"

\* `api.github.com/users/${username}/repos`
Url(username) == "api.github.com/users/" \o username \o "/repos"

\* No invocation.
NoCall ==
    [caller |-> "none", username |-> "", pc |-> "free", requests |-> <<>>,
     net |-> "none", status |-> 0, body |-> "unread", raced |-> FALSE,
     promise |-> "none", value |-> Undefined]

\* The invocation up to its first await: fetch(url) has been called.
NewCall(caller, username, raced) ==
    [caller |-> caller, username |-> username, pc |-> "awaitFetch",
     requests |-> <<[method |-> "GET", url |-> Url(username)]>>,
     net |-> "pending", status |-> 0, body |-> "unread", raced |-> raced,
     promise |-> "pending", value |-> Undefined]

\* A mutant of Catch: the error is thrown again and the promise rejects.
CatchRethrow(c, err) ==
    [c EXCEPT !.pc = "done", !.promise = "rejected", !.value = err]

\* A mutant of Catch: the first failure sends the request once more.
CatchRetryOnce(c, err) ==
    IF Len(c.requests) < 2
    THEN [c EXCEPT !.pc = "awaitFetch", !.net = "pending", !.status = 0, !.body = "unread",
                   !.requests = Append(@, [method |-> "GET", url |-> Url(c.username)])]
    ELSE [c EXCEPT !.pc = "done", !.promise = "fulfilled", !.value = err]

\* A mutant of Catch: a failure is retried until the request succeeds.
CatchRetryForever(c, err) ==
    [c EXCEPT !.pc = "awaitFetch", !.net = "pending", !.status = 0, !.body = "unread"]

\* catch (err) { return err }
Catch(c, err) ==
    [c EXCEPT !.pc = "done", !.promise = "fulfilled", !.value = err]

\* return data
Return(c, data) ==
    [c EXCEPT !.pc = "done", !.promise = "fulfilled", !.value = JsonData(data)]

Busy(s) == calls[s].pc # "free"

FreeSlots == {s \in Slots : ~Busy(s)}

\* The slot a new invocation takes.
NextSlot == CHOOSE s \in FreeSlots : \A t \in FreeSlots : s <= t

\* The invocation in slot s has run up to r: it suspends again or returns.
Advance(s, r) ==
    IF r.pc = "done"
    THEN /\ calls' = [calls EXCEPT ![s] = NoCall]
         /\ settled' = r
    ELSE /\ calls' = [calls EXCEPT ![s] = r]
         /\ UNCHANGED settled

\* await fetch(...) rejects: the network call failed.
FetchRejects(s) ==
    /\ calls[s].pc = "awaitFetch"
    /\ Advance(s, Catch([calls[s] EXCEPT !.net = "rejected"], NetworkError))
    /\ UNCHANGED <<user, submitButton, userInput, focused, submitBorder, listItems>>

\* await fetch(...) fulfils with a response of the given status.
FetchResponds(s, status) ==
    /\ calls[s].pc = "awaitFetch"
    /\ LET c == [calls[s] EXCEPT !.net = "fulfilled", !.status = status]
       IN  Advance(s, IF ~ResponseOk(status)
                      THEN Catch(c, HttpError(status))
                      ELSE [c EXCEPT !.pc = "awaitJson"])
    /\ UNCHANGED <<user, submitButton, userInput, focused, submitBorder, listItems>>

\* await response.json() fulfils with the parsed array.
JsonResolves(s, data) ==
    /\ calls[s].pc = "awaitJson"
    /\ Advance(s, Return([calls[s] EXCEPT !.body = "parsed"], data))
    /\ UNCHANGED <<user, submitButton, userInput, focused, submitBorder, listItems>>

\* await response.json() rejects: the body is not JSON.
JsonRejects(s) ==
    /\ calls[s].pc = "awaitJson"
    /\ Advance(s, Catch([calls[s] EXCEPT !.body = "malformed"], ParseError))
    /\ UNCHANGED <<user, submitButton, userInput, focused, submitBorder, listItems>>

\* The network (or the body parse) of the invocation in slot s settles.
Settle(s) ==
    \/ FetchRejects(s)
    \/ \E status \in Statuses : FetchResponds(s, status)
    \/ \E data \in Bodies : JsonResolves(s, data)
    \/ JsonRejects(s)

-----------------------------------------------------------------------------
(* RepoList *)

\* The keys `for (repo in repositories)` visits: repositories is the promise
\* fetchRepositories returned, and a promise has no enumerable property.
ForInKeys(promise) == <<>>

\* repo["name"], repo["link"] of a key of the loop, which is a string.
Prop(key, field) == "undefined"

\* <Repo name=... link=... styles=... />
Repo(name, link, styles) == [name |-> name, link |-> link, styles |-> styles]

\* The listItems of one RepoList render over the promise it has just created.
RepoList(promise) ==
    LET keys == ForInKeys(promise)
    IN  [i \in 1..Len(keys) |-> Repo(Prop(keys[i], "name"), Prop(keys[i], "link"), "")]

-----------------------------------------------------------------------------
(* highlightElement, blurElement *)

\* No inline border: the class string submitStyle sets none.
NoInlineBorder == [top |-> "", right |-> "", bottom |-> "", left |-> ""]

\* A mutant of SetBorder: the shorthand leaves the left side as it was.
SetBorderKeepLeft(style, v) == [style EXCEPT !.top = v, !.right = v, !.bottom = v]

\* element.style.border = v: the shorthand sets the four sides.
SetBorder(style, v) == [top |-> v, right |-> v, bottom |-> v, left |-> v]

\* element.style.borderLeft = v
SetBorderLeft(style, v) == [style EXCEPT !.left = v]

\* highlightElement followed by a submission of the form (a mutant).
highlightElementSubmits(ref, self) ==
    /\ submitBorder' = IF ref # NULL
                       THEN SetBorderLeft(SetBorder(submitBorder, "2px solid white"), "2px solid #151b23")
                       ELSE submitBorder
    /\ focused' = IF self # NULL THEN self ELSE "userInput"
    /\ IF FreeSlots # {}
       THEN calls' = [calls EXCEPT ![NextSlot] = NewCall("onSubmit", user, FALSE)]
       ELSE UNCHANGED calls
    /\ UNCHANGED <<user, submitButton, userInput, settled, listItems>>

\* highlightElement(ref, self), called by onFocus once the field has the focus.
highlightElement(ref, self) ==
    /\ submitBorder' = IF ref # NULL
                       THEN SetBorderLeft(SetBorder(submitBorder, "2px solid white"), "2px solid #151b23")
                       ELSE submitBorder
    /\ focused' = IF self # NULL THEN self ELSE "userInput"
    /\ UNCHANGED <<user, submitButton, userInput, calls, settled, listItems>>

\* blurElement(ref, self), called by onBlur once the focus has moved to `to`.
blurElement(ref, self, to) ==
    /\ submitBorder' = IF ref # NULL THEN SetBorder(submitBorder, "none") ELSE submitBorder
    /\ focused' = IF self # NULL /\ to = self THEN "none" ELSE to
    /\ UNCHANGED <<user, submitButton, userInput, calls, settled, listItems>>

-----------------------------------------------------------------------------
(* App *)

\* The first render has run: RepoList has called fetchRepositories(""), and
\* the refs are not attached yet.
Init ==
    /\ user = ""
    /\ submitButton = NULL
    /\ userInput = NULL
    /\ focused = "none"
    /\ submitBorder = NoInlineBorder
    /\ calls = [s \in Slots |-> IF s = 1 THEN NewCall("RepoList", "", FALSE) ELSE NoCall]
    /\ settled = NoCall
    /\ listItems = RepoList(1)

\* React commits the first render and attaches the refs.
Commit ==
    /\ userInput = NULL
    /\ submitButton' = "submitButton"
    /\ userInput' = "userInput"
    /\ UNCHANGED <<user, focused, submitBorder, calls, settled, listItems>>

\* The username field gains the focus.
OnFocus ==
    /\ userInput # NULL
    /\ focused # "userInput"
    /\ highlightElement(submitButton, userInput)

\* The username field loses the focus, which moves to `to`.
OnBlur(to) ==
    /\ userInput # NULL
    /\ focused = "userInput"
    /\ blurElement(submitButton, userInput, to)

\* A keystroke: setUser(e.target.value), then App renders again and RepoList
\* calls fetchRepositories(user) with the new value.
OnChange(v) ==
    /\ userInput # NULL
    /\ focused = "userInput"
    /\ v # user
    /\ FreeSlots # {}
    /\ user' = v
    /\ calls' = [calls EXCEPT ![NextSlot] = NewCall("RepoList", v, FALSE)]
    /\ listItems' = RepoList(NextSlot)
    /\ UNCHANGED <<submitButton, userInput, focused, submitBorder, settled>>

\* TRUE iff a submission's fetch is pending.
SubmissionInFlight == \E s \in Slots : calls[s].caller = "onSubmit"

\* The form is submitted: e.preventDefault(); fetchRepositories(user).  The
\* promise is dropped.  raced marks the submissions that overlap another one.
OnSubmit ==
    /\ userInput # NULL
    /\ FreeSlots # {}
    /\ calls' = [s \in Slots |->
                    IF s = NextSlot THEN NewCall("onSubmit", user, SubmissionInFlight)
                    ELSE IF calls[s].caller = "onSubmit" THEN [calls[s] EXCEPT !.raced = TRUE]
                    ELSE calls[s]]
    /\ UNCHANGED <<user, submitButton, userInput, focused, submitBorder, settled, listItems>>

\* The shape of the state: `user` (l.7), the two refs (l.78-79), the focus and
\* the inline border the handlers write (l.101-119), the invocations of
\* fetchRepositories (l.10-33) and the listItems of RepoList (l.57-61).
TypeOK ==
    /\ user \in Usernames
    /\ submitButton \in {NULL, "submitButton"}
    /\ userInput \in {NULL, "userInput"}
    /\ focused \in {"none", "userInput", "submitButton"}
    /\ DOMAIN submitBorder = {"top", "right", "bottom", "left"}
    /\ DOMAIN calls = Slots
    /\ \A s \in Slots : calls[s].pc \in {"free", "awaitFetch", "awaitJson"}
    /\ settled.pc \in {"free", "done"}
    /\ listItems \in Seq({Repo("undefined", "undefined", "")})

Next ==
    \/ Commit
    \/ OnFocus
    \/ \E to \in {"none", "submitButton"} : OnBlur(to)
    \/ \E v \in Usernames : OnChange(v)
    \/ OnSubmit
    \/ \E s \in Slots : FetchRejects(s)
    \/ \E s \in Slots, status \in Statuses : FetchResponds(s, status)
    \/ \E s \in Slots, data \in Bodies : JsonResolves(s, data)
    \/ \E s \in Slots : JsonRejects(s)

Spec == Init /\ [][Next]_vars

\* Every network call and every body parse settles in the end.
FairSpec == Spec /\ \A s \in Slots : WF_vars(Settle(s))

-----------------------------------------------------------------------------
(* Properties *)

\* The entries the specification's render mapping gives for a fetch result:
\* one per record, in order, with its name and url; none for a failure.
Entries(value) ==
    IF value.isError THEN <<>>
    ELSE [i \in 1..Len(value.data) |->
            Repo(value.data[i].name, value.data[i].url, "")]

Idle == \A s \in Slots : ~Busy(s)

\* C1: once the fetch RepoList started for the current username has fulfilled
\* with a well-formed array of N records, the list holds exactly N entries,
\* the i-th built from the i-th record.
C1_OneEntryPerRecord ==
    (/\ settled.caller = "RepoList"
     /\ settled.username = user
     /\ Idle
     /\ settled.promise = "fulfilled"
     /\ ~settled.value.isError)
    => listItems = Entries(settled.value)

\* C2: the promise of fetchRepositories never rejects; after a network
\* failure, a status that is not ok or a parse failure it fulfils with the
\* error as its value.
C2_FailuresAreValues ==
    /\ \A s \in Slots : calls[s].promise # "rejected"
    /\ settled.promise # "rejected"
    /\ settled.net = "rejected" => settled.value = NetworkError
    /\ (settled.net = "fulfilled" /\ ~ResponseOk(settled.status))
          => (settled.value.isError /\ settled.value.name = "Error")
    /\ settled.body = "malformed" => settled.value = ParseError
    /\ (settled.pc = "done" /\ ~settled.value.isError) => settled.body = "parsed"

W_C2 ==
    /\ settled.body = "malformed"
    /\ settled.promise = "fulfilled"
    /\ settled.value.isError

\* C3: a response of status 404 makes fetchRepositories return an error whose
\* message contains "404", and the list has no entry.
C3_NotFound ==
    settled.status = 404
    => (/\ settled.promise = "fulfilled"
        /\ settled.value.isError
        /\ Contains(settled.value.message, "404")
        /\ listItems = <<>>)

W_C3 == settled.status = 404 /\ settled.pc = "done"

\* C4: once the fetch of a submission has settled, the list shows its result
\* as entries.
C4_SubmissionIsRendered ==
    (/\ settled.caller = "onSubmit"
     /\ ~settled.raced
     /\ settled.username = user
     /\ settled.promise = "fulfilled")
    => listItems = Entries(settled.value)

\* C5: every invocation of fetchRepositories sends exactly one GET to
\* users/{username}/repos, also when it ends in a failure.
OneGet(c) ==
    /\ Len(c.requests) = 1
    /\ c.requests[1].method = "GET"
    /\ Contains(c.requests[1].url, "users/" \o c.username \o "/repos")

C5_OneRequest ==
    /\ \A s \in Slots : Busy(s) => OneGet(calls[s])
    /\ settled.pc = "done" => OneGet(settled)

W_C5 == settled.pc = "done" /\ settled.value.isError /\ Len(settled.requests) = 1

\* C6: with an empty username the request goes out with an empty path segment,
\* and when the API answers with a failure status the result is an error and
\* the list is empty.
C6_EmptyUsername ==
    /\ \A s \in Slots :
          (Busy(s) /\ calls[s].username = "")
             => calls[s].requests[1].url = "api.github.com/users//repos"
    /\ (settled.pc = "done" /\ settled.username = "")
          => settled.requests[1].url = "api.github.com/users//repos"
    /\ (settled.username = "" /\ settled.net = "fulfilled" /\ ~ResponseOk(settled.status))
          => (settled.value.isError /\ listItems = <<>>)

W_C6 ==
    /\ settled.caller = "onSubmit"
    /\ settled.username = ""
    /\ settled.status = 404
    /\ settled.value.isError

\* C7: a step of highlightElement or blurElement leaves the username, the
\* pending fetches, the last fetch result and the list as they were.
C7_PresentationOnly ==
    [][(OnFocus \/ \E to \in {"none", "submitButton"} : OnBlur(to))
          => UNCHANGED <<user, calls, settled, listItems>>]_vars

Highlighted(b) ==
    /\ b.top = "2px solid white"
    /\ b.right = "2px solid white"
    /\ b.bottom = "2px solid white"
    /\ b.left = "2px solid #151b23"

W_C7 ==
    /\ focused = "userInput"
    /\ Highlighted(submitBorder)
    /\ user # ""
    /\ settled.pc = "done"
    /\ \E s \in Slots : Busy(s)

\* C8: focusing the username field while the submit control has no focus
\* leaves the submit control highlighted and the focus in the field; the blur
\* that follows leaves no side of the submit control highlighted and the
\* field without focus.
Unhighlighted(b) ==
    /\ b.top \in {"", "none"}
    /\ b.right \in {"", "none"}
    /\ b.bottom \in {"", "none"}
    /\ b.left \in {"", "none"}

C8_FocusPair ==
    [][/\ (OnFocus /\ focused # "submitButton")
            => (Highlighted(submitBorder') /\ focused' = "userInput")
       /\ (\E to \in {"none", "submitButton"} : OnBlur(to))
            => (Unhighlighted(submitBorder') /\ focused' # "userInput")]_vars

W_C8 == submitBorder.top = "none" /\ focused = "none"

\* C9: when two overlapping submissions have both settled, the list shows
\* the result of the one that completed last.
C9_LastCompletedIsShown ==
    (/\ settled.caller = "onSubmit"
     /\ settled.raced
     /\ ~SubmissionInFlight
     /\ settled.promise = "fulfilled")
    => listItems = Entries(settled.value)

\* C10: an invocation stays pending, with no value, until its network call
\* has settled; it returns only after that, with the parsed data or an error;
\* and when the network settles in the end, every invocation returns (no
\* invocation stays pending for ever).
C10_PendingUntilSettled ==
    /\ [](\A s \in Slots :
            Busy(s) => (calls[s].promise = "pending" /\ calls[s].value = Undefined))
    /\ [](settled.pc = "done"
            => (/\ settled.net # "pending"
                /\ settled.promise = "fulfilled"
                /\ settled.value.isError = (settled.body # "parsed")))
    /\ \A s \in Slots : []<>(~Busy(s))

W_C10 ==
    /\ settled.promise = "fulfilled"
    /\ \E s \in Slots : calls[s].net = "pending"

====
